---- MODULE Spec2Model ----
(***************************************************************************)
(* Model of src/Pencit.py: the ImageProcessingApp session (original and    *)
(* processed buffers, the two Tk parameter variables, the status line) and *)
(* the button handlers that act on it.                                      *)
(*                                                                         *)
(* An image is a record [h, w, c, px]: h rows, w columns, c channels and   *)
(* the samples px, row-major with interleaved channels, as a numpy array   *)
(* of shape (h, w, 3) or (h, w) lays them out.  Python's None is the       *)
(* record with no rows, columns, channels or samples.                      *)
(*                                                                         *)
(* A float is held as a whole number of quarters (Scale = 4): the entry    *)
(* texts of the model all denote multiples of 0.25, which binary floating  *)
(* point represents exactly, so sample / value is computed here as Python  *)
(* computes it.                                                            *)
(***************************************************************************)
EXTENDS Integers, Sequences, FiniteSets, TLC

VARIABLES
    original_image,   \* self.original_image
    processed_image,  \* self.processed_image
    division_var,     \* self.division_var: the Tcl variable the division entry edits (its text)
    threshold_var,    \* self.threshold_var
    status_var,       \* self.status_var: the status line
    messagebox,       \* the dialog the handler that just ran showed: its kind and its text
    hist_plotted,     \* the tables the handler that just ran plotted, one per channel
    written           \* the buffer the handler that just ran wrote to a file

vars == <<original_image, processed_image, division_var, threshold_var,
          status_var, messagebox, hist_plotted, written>>

\* ------------------------------------------------------------------ bounds

MaxW == 2
MaxH == 2

\* ------------------------------------------------------------- image values

None == [h |-> 0, w |-> 0, c |-> 0, px |-> <<>>]

DefaultThreshold == 128

Scale == 4

DefaultDivisionText == "2.0"

\* Pixels a file may hold, in the file's B, G, R order.
Palette == <<
    <<200, 200, 200>>,
    <<128, 128, 128>>,
    <<30, 140, 250>>,
    <<255, 255, 255>>,
    <<0, 0, 0>> >>

\* Where in the palette a file's first pixel is taken from.
Seeds == {0, 1}

\* The files the open dialog can return: decodable rasters of every size up to
\* MaxW x MaxH whose pixels run through the palette from a seed, and one file
\* that is no image.
GoodFiles ==
    {[ok |-> TRUE, w |-> w, h |-> h, seed |-> s] :
        w \in 1..MaxW, h \in 1..MaxH, s \in Seeds}

BadFiles == {[ok |-> FALSE, w |-> 0, h |-> 0, seed |-> 0]}

Files == GoodFiles \cup BadFiles

basename(f) == f.seed * 100 + f.h * 10 + f.w

\* cv2.imread: the decoded 3-channel BGR buffer, or None when the file cannot
\* be decoded (imread does not raise).
imread(f) ==
    IF f.ok
    THEN [h |-> f.h, w |-> f.w, c |-> 3,
          px |-> [i \in 1..(f.h * f.w * 3) |->
                    Palette[((f.seed + ((i - 1) \div 3)) % Len(Palette)) + 1]
                           [((i - 1) % 3) + 1]]]
    ELSE None

\* Sample k of pixel (y, x), all counted from 0.
At(img, y, x, k) == img.px[((y * img.w + x) * img.c) + k + 1]

\* img.copy()
Copy(img) == [h |-> img.h, w |-> img.w, c |-> img.c,
              px |-> [i \in 1..(img.h * img.w * img.c) |-> img.px[i]]]

\* cv2.cvtColor(img, COLOR_BGR2RGB) and COLOR_RGB2BGR: channels 0 and 2 change
\* places in a new buffer.
SwapRB(img) ==
    [h |-> img.h, w |-> img.w, c |-> 3,
     px |-> [i \in 1..(img.h * img.w * 3) |->
               img.px[i + 2 - 2 * ((i - 1) % 3)]]]

\* cv2.cvtColor(img, COLOR_RGB2GRAY) on 8-bit samples: fixed point, 15 bits.
GrayOf(r, g, b) == (r * 9798 + g * 19235 + b * 3735 + 16384) \div 32768

RGB2GRAY(img) ==
    [h |-> img.h, w |-> img.w, c |-> 1,
     px |-> [p \in 1..(img.h * img.w) |->
               GrayOf(img.px[3 * p - 2], img.px[3 * p - 1], img.px[3 * p])]]

\* ThresholdSample with the comparison of the specification: a sample equal to
\* thresh maps to maxval too.
ThresholdSampleInclusive(v, thresh) == IF v >= thresh THEN 255 ELSE 0

\* cv2.threshold(gray, thresh, 255, THRESH_BINARY): maxval where the sample is
\* greater than thresh, 0 elsewhere.
ThresholdSample(v, thresh) == IF v > thresh THEN 255 ELSE 0

threshold(gray, thresh) ==
    [h |-> gray.h, w |-> gray.w, c |-> gray.c,
     px |-> [i \in 1..(gray.h * gray.w * gray.c) |->
               ThresholdSample(gray.px[i], thresh)]]

\* cv2.bitwise_not on 8-bit samples.
bitwise_not(img) ==
    [h |-> img.h, w |-> img.w, c |-> img.c,
     px |-> [i \in 1..(img.h * img.w * img.c) |-> 255 - img.px[i]]]

\* np.clip(x, 0, 255)
clip(x) == IF x < 0 THEN 0 ELSE IF x > 255 THEN 255 ELSE x

\* DivideSample with the quotient rounded to the nearest integer.
DivideSampleRounded(v, q) == clip((2 * v * Scale + q) \div (2 * q))

\* np.clip(img / value, 0, 255).astype(np.uint8), value = q quarters: the
\* quotient is clipped and then truncated.
DivideSample(v, q) == clip((v * Scale) \div q)

Divide(img, q) ==
    [h |-> img.h, w |-> img.w, c |-> img.c,
     px |-> [i \in 1..(img.h * img.w * img.c) |-> DivideSample(img.px[i], q)]]

\* ------------------------------------------------- convolution and morphology

RECURSIVE SeqSum(_)
SeqSum(s) == IF s = <<>> THEN 0 ELSE Head(s) + SeqSum(Tail(s))

\* cv2.borderInterpolate for BORDER_REFLECT_101, the default border of
\* GaussianBlur and filter2D: the index mirrored about the edge sample, the edge
\* sample itself not repeated.
RECURSIVE Reflect101(_, _)
Reflect101(p, len) ==
    IF len = 1 THEN 0
    ELSE IF p < 0 THEN Reflect101(-p, len)
    ELSE IF p >= len THEN Reflect101(2 * len - 2 - p, len)
    ELSE p

\* BorderInterpolate for BORDER_REPLICATE: the nearest valid index.
BorderReplicate(p, len) == IF p < 0 THEN 0 ELSE IF p >= len THEN len - 1 ELSE p

BorderInterpolate(p, len) == Reflect101(p, len)

\* The 15-tap Gaussian of cv2.GaussianBlur(img, (15, 15), 0) on 8-bit samples:
\* sigma = 0.3 * ((15 - 1) * 0.5 - 1) + 0.8 = 2.6, the normalised weights
\* exp(-x^2 / (2 sigma^2)) held in fixed point with 8 fractional bits and
\* summing to 256 (the library's own rounding of a weight may differ by one
\* unit in the last place).
GaussKernel == <<1, 3, 6, 12, 20, 29, 37, 40, 37, 29, 20, 12, 6, 3, 1>>

GaussRadius == (Len(GaussKernel) - 1) \div 2

\* cv2.GaussianBlur: a row pass and a column pass, the result rounded once.
GaussianBlur(img) ==
    LET n == img.h * img.w * img.c
        yOf(i) == ((i - 1) \div img.c) \div img.w
        xOf(i) == ((i - 1) \div img.c) % img.w
        kOf(i) == (i - 1) % img.c
        rows == [i \in 1..n |->
                   SeqSum([j \in 1..Len(GaussKernel) |->
                       GaussKernel[j] *
                       At(img, yOf(i),
                          BorderInterpolate(xOf(i) + j - 1 - GaussRadius, img.w),
                          kOf(i))])]
        rowAt(y, x, k) == rows[((y * img.w + x) * img.c) + k + 1]
    IN  [h |-> img.h, w |-> img.w, c |-> img.c,
         px |-> [i \in 1..n |->
                   (SeqSum([j \in 1..Len(GaussKernel) |->
                        GaussKernel[j] *
                        rowAt(BorderInterpolate(yOf(i) + j - 1 - GaussRadius, img.h),
                              xOf(i), kOf(i))])
                    + 32768) \div 65536]]

\* Every buffer a successful load_image leaves in original_image.
Loadable == {SwapRB(imread(f)) : f \in GoodFiles}

\* GaussianBlur of each loadable buffer, computed once for the whole run: the
\* handler only ever blurs original_image.
BlurOf == [img \in Loadable |-> GaussianBlur(img)]

\* kernel = np.array([[-1,-1,-1], [-1,9,-1], [-1,-1,-1]])
SharpenKernel == << <<-1, -1, -1>>, <<-1, 9, -1>>, <<-1, -1, -1>> >>

\* cv2.filter2D(img, -1, kernel): the kernel laid over each pixel, the sum
\* saturated to 8 bits.
filter2D(img, kernel) ==
    LET n == img.h * img.w * img.c
        yOf(i) == ((i - 1) \div img.c) \div img.w
        xOf(i) == ((i - 1) \div img.c) % img.w
        kOf(i) == (i - 1) % img.c
    IN  [h |-> img.h, w |-> img.w, c |-> img.c,
         px |-> [i \in 1..n |->
                   clip(SeqSum([t \in 1..9 |->
                       LET dy == ((t - 1) \div 3) - 1
                           dx == ((t - 1) % 3) - 1
                       IN  kernel[dy + 2][dx + 2] *
                           At(img, BorderInterpolate(yOf(i) + dy, img.h),
                              BorderInterpolate(xOf(i) + dx, img.w), kOf(i))]))]]

\* cv2.getStructuringElement(cv2.MORPH_RECT, (5, 5)) and (cv2.MORPH_CROSS, (5, 5)),
\* as the offsets from the anchor at the centre.
MORPH_RECT == {<<dy, dx>> : dy \in -2..2, dx \in -2..2}

MORPH_CROSS == {o \in MORPH_RECT : o[1] = 0 \/ o[2] = 0}

SetMin(S) == CHOOSE m \in S : \A v \in S : m <= v

\* cv2.erode(img, kernel, iterations=1): the minimum over the element's
\* neighbours; with the default border (BORDER_CONSTANT, the morphology default
\* value) a neighbour outside the image takes no part.
erode(img, kernel) ==
    LET n == img.h * img.w * img.c
        yOf(i) == ((i - 1) \div img.c) \div img.w
        xOf(i) == ((i - 1) \div img.c) % img.w
        kOf(i) == (i - 1) % img.c
    IN  [h |-> img.h, w |-> img.w, c |-> img.c,
         px |-> [i \in 1..n |->
                   SetMin({At(img, yOf(i) + o[1], xOf(i) + o[2], kOf(i)) :
                           o \in {d \in kernel :
                                    /\ yOf(i) + d[1] \in 0..(img.h - 1)
                                    /\ xOf(i) + d[2] \in 0..(img.w - 1)}})]]

\* The binary image both erosions start from.
ErosionInput(img) ==
    IF img.c = 3 THEN threshold(RGB2GRAY(img), 127) ELSE img

\* cv2.calcHist([img], [k], None, [256], [0, 256]): how often each of the 256
\* levels occurs in channel k (counted from 0).
calcHist(img, k) ==
    [v \in 0..255 |->
        Cardinality({p \in 0..(img.h * img.w - 1) : img.px[p * img.c + k + 1] = v})]

\* The tables show_histogram plots for an image: three for a colour image, one
\* for a single-channel one.
HistogramOf(img) ==
    IF img.c = 3
    THEN [k \in 1..3 |-> calcHist(img, k - 1)]
    ELSE [k \in 1..1 |-> calcHist(img, 0)]

\* ------------------------------------------------------------ the entry text

\* What the user can type into the division entry.
EntryTexts == {"1", "2.5", "0.5", "10.25", "abc"}

\* float(text): the value in quarters, or ValueError.
float(text) ==
    CASE text = "1"     -> [ok |-> TRUE, q |-> 4]
      [] text = "1.0"   -> [ok |-> TRUE, q |-> 4]
      [] text = "2.0"   -> [ok |-> TRUE, q |-> 8]
      [] text = "2.5"   -> [ok |-> TRUE, q |-> 10]
      [] text = "10.0"  -> [ok |-> TRUE, q |-> 40]
      [] text = "0.5"   -> [ok |-> TRUE, q |-> 2]
      [] text = "10.25" -> [ok |-> TRUE, q |-> 41]
      [] OTHER          -> [ok |-> FALSE, q |-> 0]

\* division_var.set(value): the text the Tcl variable, and so the entry, holds
\* after a float is stored in it.
repr(q) ==
    CASE q = 4  -> "1.0"
      [] q = 8  -> "2.0"
      [] q = 10 -> "2.5"
      [] q = 40 -> "10.0"
      [] q = 2  -> "0.5"
      [] q = 41 -> "10.25"

\* InRange without its lower limit.
InRangeUpperOnly(q) == q <= 10 * Scale

\* 1.0 <= value <= 10.0
InRange(q) == 1 * Scale <= q /\ q <= 10 * Scale

Status(msg, arg) == [msg |-> msg, arg |-> arg]

\* messagebox.showwarning / showerror / showinfo with the text shown.
Box(kind, text) == [kind |-> kind, text |-> text]

NoBox == Box("none", "")

\* ------------------------------------------------------------------- state

\* setup_variables and create_status_bar.
Init ==
    /\ original_image = None
    /\ processed_image = None
    /\ division_var = DefaultDivisionText
    /\ threshold_var = DefaultThreshold
    /\ status_var = Status("Ready", 0)
    /\ messagebox = NoBox
    /\ hist_plotted = <<>>
    /\ written = None

\* check_image's test; its warning is NoImageWarning.
check_image == original_image # None

\* NoImageWarning without its dialog: a handler that returns silently.
NoImageSilent ==
    /\ messagebox' = NoBox
    /\ hist_plotted' = <<>>
    /\ written' = None
    /\ UNCHANGED <<original_image, processed_image, division_var, threshold_var,
                   status_var>>

\* What a handler that returns after a warning leaves behind.
NoImageWarning ==
    /\ messagebox' = Box("showwarning", "Please load an image first!")
    /\ hist_plotted' = <<>>
    /\ written' = None
    /\ UNCHANGED <<original_image, processed_image, division_var, threshold_var,
                   status_var>>

\* A transform handler past check_image: the new processed buffer is displayed
\* and the status line names the transform.
Processed(img, status) ==
    /\ processed_image' = img
    /\ status_var' = status
    /\ messagebox' = NoBox
    /\ hist_plotted' = <<>>
    /\ written' = None
    /\ UNCHANGED <<original_image, division_var, threshold_var>>

\* ---------------------------------------------------------------- handlers

\* A key typed into the division entry: the entry edits division_var, and
\* validate_division_input only recolours the entry.
TypeDivision(text) ==
    /\ division_var' = text
    /\ messagebox' = NoBox
    /\ hist_plotted' = <<>>
    /\ written' = None
    /\ UNCHANGED <<original_image, processed_image, threshold_var, status_var>>

\* load_image with the open dialog cancelled.
LoadCancel ==
    /\ messagebox' = NoBox
    /\ hist_plotted' = <<>>
    /\ written' = None
    /\ UNCHANGED <<original_image, processed_image, division_var, threshold_var,
                   status_var>>

\* LoadImage without line 429: the processed buffer is not replaced.
LoadImageKeepsProcessed(f) ==
    LET decoded == imread(f) IN
    IF decoded = None
    THEN /\ original_image' = None
         /\ messagebox' = Box("showerror", "Failed to load image")
         /\ hist_plotted' = <<>>
         /\ written' = None
         /\ UNCHANGED <<processed_image, division_var, threshold_var, status_var>>
    ELSE /\ original_image' = SwapRB(decoded)
         /\ status_var' = Status("Loaded", basename(f))
         /\ messagebox' = NoBox
         /\ hist_plotted' = <<>>
         /\ written' = None
         /\ UNCHANGED <<processed_image, division_var, threshold_var>>

\* load_image with file f chosen.  imread's result is stored in original_image
\* before cvtColor looks at it; cvtColor raises on None and the handler reports
\* the exception.
LoadImage(f) ==
    LET decoded == imread(f) IN
    IF decoded = None
    THEN /\ original_image' = None
         /\ messagebox' = Box("showerror", "Failed to load image")
         /\ hist_plotted' = <<>>
         /\ written' = None
         /\ UNCHANGED <<processed_image, division_var, threshold_var, status_var>>
    ELSE /\ original_image' = SwapRB(decoded)
         /\ processed_image' = Copy(original_image')
         /\ status_var' = Status("Loaded", basename(f))
         /\ messagebox' = NoBox
         /\ hist_plotted' = <<>>
         /\ written' = None
         /\ UNCHANGED <<division_var, threshold_var>>

convert_grayscale ==
    IF ~check_image THEN NoImageWarning
    ELSE Processed(RGB2GRAY(original_image), Status("grayscale", 0))

convert_binary ==
    IF ~check_image THEN NoImageWarning
    ELSE LET gray == IF original_image.c = 3 THEN RGB2GRAY(original_image)
                     ELSE original_image
         IN  Processed(threshold(gray, threshold_var),
                       Status("binary", threshold_var))

\* logical_not reading the buffer the previous transform left.
logical_not_chained ==
    IF ~check_image THEN NoImageWarning
    ELSE Processed(bitwise_not(processed_image), Status("not", 0))

logical_not ==
    IF ~check_image THEN NoImageWarning
    ELSE Processed(bitwise_not(original_image), Status("not", 0))

\* apply_division dividing original_image in place (original_image //= value).
apply_division_in_place ==
    IF ~check_image THEN NoImageWarning
    ELSE LET value == float(division_var) IN
         IF ~value.ok \/ ~InRange(value.q)
         THEN /\ messagebox' =
                    IF value.ok
                    THEN Box("showerror", "Please enter a value between 1.0 and 10.0")
                    ELSE Box("showerror",
                             "Please enter a valid number between 1.0 and 10.0")
              /\ hist_plotted' = <<>>
              /\ written' = None
              /\ UNCHANGED <<original_image, processed_image, division_var,
                             threshold_var, status_var>>
         ELSE /\ division_var' = repr(value.q)
              /\ original_image' = Divide(original_image, value.q)
              /\ processed_image' = original_image'
              /\ status_var' = Status("division", value.q)
              /\ messagebox' = NoBox
              /\ hist_plotted' = <<>>
              /\ written' = None
              /\ UNCHANGED threshold_var

\* apply_division: the entry's text is parsed and range-checked before
\* anything is stored.
apply_division ==
    IF ~check_image THEN NoImageWarning
    ELSE LET value == float(division_var) IN
         IF ~value.ok \/ ~InRange(value.q)
         THEN /\ messagebox' =
                    IF value.ok
                    THEN Box("showerror", "Please enter a value between 1.0 and 10.0")
                    ELSE Box("showerror",
                             "Please enter a valid number between 1.0 and 10.0")
              /\ hist_plotted' = <<>>
              /\ written' = None
              /\ UNCHANGED <<original_image, processed_image, division_var,
                             threshold_var, status_var>>
         ELSE /\ division_var' = repr(value.q)
              /\ processed_image' = Divide(original_image, value.q)
              /\ status_var' = Status("division", value.q)
              /\ messagebox' = NoBox
              /\ hist_plotted' = <<>>
              /\ written' = None
              /\ UNCHANGED <<original_image, threshold_var>>

\* img_for_hist as the specification has it: always the original.
img_for_hist_original == original_image

\* The image show_histogram plots.
img_for_hist ==
    IF processed_image # None THEN processed_image ELSE original_image

show_histogram ==
    IF ~check_image THEN NoImageWarning
    ELSE /\ status_var' = Status("histogram", 0)
         /\ messagebox' = NoBox
         /\ hist_plotted' = HistogramOf(img_for_hist)
         /\ written' = None
         /\ UNCHANGED <<original_image, processed_image, division_var,
                        threshold_var>>

gaussian_blur ==
    IF ~check_image THEN NoImageWarning
    ELSE Processed(BlurOf[original_image], Status("blur", 0))

sharpen_image ==
    IF ~check_image THEN NoImageWarning
    ELSE Processed(filter2D(original_image, SharpenKernel), Status("sharpen", 0))

erosion_square ==
    IF ~check_image THEN NoImageWarning
    ELSE Processed(erode(ErosionInput(original_image), MORPH_RECT),
                   Status("erosion_square", 0))

erosion_cross ==
    IF ~check_image THEN NoImageWarning
    ELSE Processed(erode(ErosionInput(original_image), MORPH_CROSS),
                   Status("erosion_cross", 0))

\* reset_image without lines 563 and 564.
reset_image_keeps_parameters ==
    IF ~check_image THEN NoImageWarning
    ELSE /\ processed_image' = Copy(original_image)
         /\ status_var' = Status("reset", 0)
         /\ messagebox' = NoBox
         /\ hist_plotted' = <<>>
         /\ written' = None
         /\ UNCHANGED <<original_image, division_var, threshold_var>>

reset_image ==
    IF ~check_image THEN NoImageWarning
    ELSE /\ processed_image' = Copy(original_image)
         /\ division_var' = repr(2 * Scale)
         /\ threshold_var' = DefaultThreshold
         /\ status_var' = Status("reset", 0)
         /\ messagebox' = NoBox
         /\ hist_plotted' = <<>>
         /\ written' = None
         /\ UNCHANGED original_image

\* What the save dialog and cv2.imwrite can do: the dialog is cancelled; the
\* file is written; imwrite cannot create the file and returns False; imwrite
\* knows no encoder for the extension and raises.
SaveOutcomes == {"cancel", "written", "unwritable", "bad_extension"}

\* The buffer handed to cv2.imwrite.
img_save ==
    IF processed_image.c = 3 THEN SwapRB(processed_image) ELSE processed_image

\* save_image converting processed_image itself to B, G, R order before
\* writing it.
save_image_in_place(outcome) ==
    IF processed_image = None
    THEN /\ messagebox' = Box("showwarning", "No processed image to save!")
         /\ hist_plotted' = <<>>
         /\ written' = None
         /\ UNCHANGED <<original_image, processed_image, division_var,
                        threshold_var, status_var>>
    ELSE /\ hist_plotted' = <<>>
         /\ UNCHANGED <<original_image, division_var, threshold_var>>
         /\ CASE outcome = "cancel" ->
                    /\ messagebox' = NoBox
                    /\ written' = None
                    /\ UNCHANGED <<status_var, processed_image>>
              [] outcome = "written" ->
                    /\ processed_image' = img_save
                    /\ status_var' = Status("Saved", 0)
                    /\ messagebox' = Box("showinfo", "Image saved successfully!")
                    /\ written' = img_save
              [] outcome = "unwritable" ->
                    /\ status_var' = Status("Saved", 0)
                    /\ messagebox' = Box("showinfo", "Image saved successfully!")
                    /\ written' = None
                    /\ processed_image' = img_save
              [] outcome = "bad_extension" ->
                    /\ messagebox' = Box("showerror", "Failed to save")
                    /\ written' = None
                    /\ UNCHANGED status_var
                    /\ processed_image' = img_save

save_image(outcome) ==
    IF processed_image = None
    THEN /\ messagebox' = Box("showwarning", "No processed image to save!")
         /\ hist_plotted' = <<>>
         /\ written' = None
         /\ UNCHANGED <<original_image, processed_image, division_var,
                        threshold_var, status_var>>
    ELSE /\ hist_plotted' = <<>>
         /\ UNCHANGED <<original_image, processed_image, division_var,
                        threshold_var>>
         /\ CASE outcome = "cancel" ->
                    /\ messagebox' = NoBox
                    /\ written' = None
                    /\ UNCHANGED status_var
              [] outcome = "written" ->
                    /\ status_var' = Status("Saved", 0)
                    /\ messagebox' = Box("showinfo", "Image saved successfully!")
                    /\ written' = img_save
              [] outcome = "unwritable" ->
                    /\ written' = None
                    /\ status_var' = Status("Saved", 0)
                    /\ messagebox' = Box("showinfo", "Image saved successfully!")
              [] outcome = "bad_extension" ->
                    /\ written' = None
                    /\ messagebox' = Box("showerror", "Failed to save")
                    /\ UNCHANGED status_var

Next ==
    \/ \E text \in EntryTexts : TypeDivision(text)
    \/ LoadCancel
    \/ \E f \in Files : LoadImage(f)
    \/ convert_grayscale
    \/ convert_binary
    \/ logical_not
    \/ apply_division
    \/ show_histogram
    \/ gaussian_blur
    \/ sharpen_image
    \/ erosion_square
    \/ erosion_cross
    \/ reset_image
    \/ \E outcome \in SaveOutcomes : save_image(outcome)

Spec == Init /\ [][Next]_vars

\* ------------------------------------------------------------------ claims

\* The states of the session.
Empty == original_image = None /\ processed_image = None

\* A successful load of file f.  Such a step leaves the status line naming the
\* file, which is looked at before the step is matched against load_image.
LoadedFrom(f) ==
    /\ status_var' = Status("Loaded", basename(f))
    /\ LoadImage(f)

\* A load whose file is chosen and decodes, one whose file does not.
LoadDecoded == \E f \in GoodFiles : LoadedFrom(f)

LoadUndecodable == \E f \in BadFiles : LoadImage(f)

\* Every handler but load_image and the entry's keys.
CatalogueOp ==
    \/ convert_grayscale
    \/ convert_binary
    \/ logical_not
    \/ apply_division
    \/ show_histogram
    \/ gaussian_blur
    \/ sharpen_image
    \/ erosion_square
    \/ erosion_cross
    \/ reset_image
    \/ \E outcome \in SaveOutcomes : save_image(outcome)

\* C1: a load whose file cannot be decoded is reported and leaves original and
\* processed exactly as they were.  (The code stores imread's None in
\* original_image before the failure is noticed.)
C1_FailedLoadLeavesSession ==
    [][LoadUndecodable =>
          /\ messagebox'.kind = "showerror"
          /\ original_image' = original_image
          /\ processed_image' = processed_image]_vars

\* C2: with no image loaded, every handler but load reports a warning and
\* leaves original, processed and both parameters as they were.
C2_EmptyRefusesAllButLoad ==
    [][(Empty /\ CatalogueOp) =>
          /\ messagebox'.kind = "showwarning"
          /\ Empty'
          /\ UNCHANGED <<division_var, threshold_var>>]_vars

\* C2's case: a handler has just refused to run in the empty session, the
\* entry holding what the user typed.
C2_Witness ==
    /\ Empty
    /\ messagebox.kind = "showwarning"
    /\ division_var = "2.5"

GraySample(img, p) ==
    (img.px[3 * p - 2] * 9798 + img.px[3 * p - 1] * 19235
        + img.px[3 * p] * 3735 + 16384) \div 32768

SameShape(a, b) == a.h = b.h /\ a.w = b.w /\ a.c = b.c

\* C4: whatever was applied before, the processed buffer a transform leaves is
\* that transform of original: while the image stays loaded and the status line
\* names a transform (or a reset or load), processed is its result on original.
C4_ProcessedFromOriginal ==
    original_image # None =>
        /\ status_var.msg = "grayscale" =>
              processed_image = RGB2GRAY(original_image)
        /\ status_var.msg = "binary" =>
              processed_image = threshold(RGB2GRAY(original_image), status_var.arg)
        /\ status_var.msg = "not" =>
              /\ SameShape(processed_image, original_image)
              /\ \A i \in 1..(original_image.h * original_image.w * original_image.c) :
                    processed_image.px[i] = 255 - original_image.px[i]
        /\ status_var.msg = "division" =>
              processed_image = Divide(original_image, status_var.arg)
        /\ status_var.msg = "blur" =>
              processed_image = GaussianBlur(original_image)
        /\ status_var.msg = "sharpen" =>
              processed_image = filter2D(original_image, SharpenKernel)
        /\ status_var.msg = "erosion_square" =>
              processed_image = erode(ErosionInput(original_image), MORPH_RECT)
        /\ status_var.msg = "erosion_cross" =>
              processed_image = erode(ErosionInput(original_image), MORPH_CROSS)
        /\ status_var.msg \in {"reset", "Loaded"} =>
              processed_image = original_image

\* C4's case: a transform has been applied to a loaded image and changed it.
C4_Witness ==
    /\ original_image # None
    /\ status_var.msg = "not"
    /\ processed_image # original_image
    /\ original_image.h = 2 /\ original_image.w = 2

\* C5: only load changes original.
C5_OnlyLoadChangesOriginal ==
    [][(original_image' # original_image) =>
          (LoadDecoded \/ LoadUndecodable)]_vars

\* C5's case: a division has replaced processed and original is still the
\* loaded buffer.
C5_Witness ==
    /\ original_image \in Loadable
    /\ status_var.msg = "division"
    /\ processed_image # original_image

\* C6: reset with an image loaded makes processed equal to original, which it
\* leaves alone, and puts both parameters back at their defaults.
C6_ResetRestores ==
    [][(check_image /\ reset_image) =>
          /\ original_image' = original_image
          /\ processed_image' = original_image
          /\ threshold_var' = 128
          /\ float(division_var').ok /\ float(division_var').q = 2 * Scale
          /\ messagebox'.kind = "none"]_vars

\* C6's case: reset has just run on a loaded image.
C6_Witness ==
    /\ original_image # None
    /\ status_var.msg = "reset"
    /\ processed_image = original_image
    /\ division_var = "2.0"
    /\ threshold_var = 128

\* C7: with an image loaded, apply-division on an entry that is no number or is
\* outside [1.0, 10.0] shows an error and leaves original, processed and the
\* stored factor alone; a value inside replaces processed and is stored.
C7_DivisionValidated ==
    [][(check_image /\ apply_division) =>
          LET value == float(division_var) IN
          IF value.ok /\ 4 <= value.q /\ value.q <= 40
          THEN /\ status_var' = Status("division", value.q)
               /\ float(division_var').ok /\ float(division_var').q = value.q
               /\ original_image' = original_image
               /\ messagebox'.kind = "none"
          ELSE /\ messagebox'.kind = "showerror"
               /\ UNCHANGED <<original_image, processed_image, division_var,
                              status_var>>]_vars

\* C7's case: apply-division has just refused an out-of-range value.
C7_Witness ==
    /\ original_image # None
    /\ messagebox = Box("showerror", "Please enter a value between 1.0 and 10.0")
    /\ division_var = "0.5"

\* C8 as stated: binary conversion gives 255 where the grayscale sample is
\* greater than or equal to the threshold, 0 elsewhere.
C8_BinaryAtOrAbove ==
    (original_image # None /\ status_var.msg = "binary") =>
        /\ processed_image.c = 1
        /\ \A p \in 1..(original_image.h * original_image.w) :
              processed_image.px[p] =
                  IF GraySample(original_image, p) >= status_var.arg
                  THEN 255 ELSE 0

\* C8 amended: binary conversion gives a 1-channel buffer of the original's
\* size holding 255 where the grayscale sample is strictly greater than the
\* threshold and 0 elsewhere, so a sample equal to the threshold maps to 0.
C8_BinaryStrictlyAbove ==
    (original_image # None /\ status_var.msg = "binary") =>
        /\ processed_image.c = 1
        /\ processed_image.h = original_image.h
        /\ processed_image.w = original_image.w
        /\ status_var.arg = threshold_var
        /\ \A p \in 1..(original_image.h * original_image.w) :
              /\ processed_image.px[p] \in {0, 255}
              /\ processed_image.px[p] =
                    IF GraySample(original_image, p) > status_var.arg
                    THEN 255 ELSE 0

\* C8's case: binary conversion of an image with a sample equal to the
\* threshold, one above it and one below it.
C8_Witness ==
    /\ original_image # None
    /\ status_var.msg = "binary"
    /\ \E p, q, r \in 1..(original_image.h * original_image.w) :
          /\ GraySample(original_image, p) = status_var.arg
          /\ processed_image.px[p] = 0
          /\ GraySample(original_image, q) > status_var.arg
          /\ GraySample(original_image, r) < status_var.arg

\* C9: division gives a buffer of original's shape, each sample the original
\* sample divided by the factor and truncated, within 0..255; by 1.0 it is
\* original, and all 200 by 2.0 is all 100.
C9_DivisionTruncates ==
    (original_image # None /\ status_var.msg = "division") =>
        LET q == status_var.arg
            n == original_image.h * original_image.w * original_image.c
        IN  /\ SameShape(processed_image, original_image)
            /\ \A i \in 1..n :
                  /\ processed_image.px[i] \in 0..255
                  \* the largest integer not above sample / (q / 4)
                  /\ processed_image.px[i] * q <= original_image.px[i] * 4
                  /\ original_image.px[i] * 4 < (processed_image.px[i] + 1) * q
            /\ q = 4 => processed_image = original_image
            /\ (q = 8 /\ \A i \in 1..n : original_image.px[i] = 200) =>
                  \A i \in 1..n : processed_image.px[i] = 100

\* C9's case: an image of all 200 has been divided by 2.0.
C9_Witness ==
    /\ original_image # None
    /\ status_var = Status("division", 8)
    /\ \A i \in 1..(original_image.h * original_image.w * original_image.c) :
          original_image.px[i] = 200 /\ processed_image.px[i] = 100

\* C10 as stated: the tables the histogram handler plots are those of original.
C10_HistogramOfOriginal ==
    hist_plotted # <<>> =>
        /\ DOMAIN hist_plotted = 1..original_image.c
        /\ \A k \in 1..original_image.c : \A v \in 0..255 :
              hist_plotted[k][v] =
                  Cardinality({p \in 1..(original_image.h * original_image.w) :
                                  original_image.px[(p - 1) * original_image.c + k] = v})

\* C10 amended: the tables the histogram handler plots are those of the
\* processed buffer, one per channel of processed.
C10_HistogramOfProcessed ==
    hist_plotted # <<>> =>
        /\ original_image # None /\ processed_image # None
        /\ DOMAIN hist_plotted = 1..processed_image.c
        /\ \A k \in 1..processed_image.c : \A v \in 0..255 :
              hist_plotted[k][v] =
                  Cardinality({p \in 1..(processed_image.h * processed_image.w) :
                                  processed_image.px[(p - 1) * processed_image.c + k] = v})

\* C10's case: the histogram of a processed buffer that differs from original
\* has just been plotted.
C10_Witness ==
    /\ hist_plotted # <<>>
    /\ status_var.msg = "histogram"
    /\ processed_image # original_image
    /\ processed_image.c = 1

\* A save past the dialog: a path was chosen and cv2.imwrite was called.
SaveAttempted ==
    /\ processed_image # None
    /\ \E outcome \in SaveOutcomes \ {"cancel"} : save_image(outcome)

\* C11: a save whose write does not succeed shows an error and reports no
\* success; success is reported only when the file was written.  (The code
\* ignores cv2.imwrite's False and reports success.)
C11_SaveFailureReported ==
    [][SaveAttempted =>
          IF written' = None
          THEN /\ messagebox'.kind = "showerror"
               /\ status_var' = status_var
          ELSE /\ messagebox'.kind = "showinfo"
               /\ status_var'.msg = "Saved"]_vars

\* C12: save, whatever becomes of it, and the histogram display leave original,
\* processed and both parameters as they were; what a colour save writes is a
\* reordered copy.
C12_SaveAndHistogramReadOnly ==
    [][((\E outcome \in SaveOutcomes : save_image(outcome)) \/ show_histogram) =>
          /\ UNCHANGED <<original_image, processed_image, division_var,
                         threshold_var>>
          /\ (written' # None /\ processed_image.c = 3) =>
                \A i \in 1..(processed_image.h * processed_image.w * 3) :
                    written'.px[i] = processed_image.px[i + 2 - 2 * ((i - 1) % 3)]]_vars

\* C12's case: a colour buffer has just been written in B, G, R order, and
\* processed is still in R, G, B order.
C12_Witness ==
    /\ written # None
    /\ processed_image.c = 3
    /\ written # processed_image
    /\ messagebox.kind = "showinfo"

\* The index of the nearest valid pixel: border replication.
Nearest(p, len) == IF p < 0 THEN 0 ELSE IF p > len - 1 THEN len - 1 ELSE p

\* Sample k at (y, x) of img extended beyond its edges by Border.
Extended(img, Border(_, _), y, x, k) ==
    At(img, Border(y, img.h), Border(x, img.w), k)

\* The 15 x 15 Gaussian laid over every pixel of the extended image.
BlurExtended(img, Border(_, _)) ==
    LET n == img.h * img.w * img.c
        taps == 1..Len(GaussKernel)
    IN  [h |-> img.h, w |-> img.w, c |-> img.c,
         px |-> [i \in 1..n |->
            LET y == ((i - 1) \div img.c) \div img.w
                x == ((i - 1) \div img.c) % img.w
                k == (i - 1) % img.c
            IN  (SeqSum([jy \in taps |->
                    SeqSum([jx \in taps |->
                        GaussKernel[jy] * GaussKernel[jx] *
                        Extended(img, Border, y + jy - 1 - GaussRadius,
                                 x + jx - 1 - GaussRadius, k)])])
                 + 32768) \div 65536]]

\* The sharpening kernel laid over every pixel of the extended image.
SharpenExtended(img, Border(_, _)) ==
    [h |-> img.h, w |-> img.w, c |-> img.c,
     px |-> [i \in 1..(img.h * img.w * img.c) |->
        LET y == ((i - 1) \div img.c) \div img.w
            x == ((i - 1) \div img.c) % img.w
            k == (i - 1) % img.c
            sum == 9 * At(img, y, x, k)
                   - SeqSum([t \in 1..8 |->
                        LET u == IF t > 4 THEN t + 1 ELSE t
                        IN  Extended(img, Border, y + ((u - 1) \div 3) - 1,
                                     x + ((u - 1) % 3) - 1, k)])
        IN  IF sum < 0 THEN 0 ELSE IF sum > 255 THEN 255 ELSE sum]]

\* Erosion over the extended image: a pixel stays 255 only if every neighbour
\* the element names, those beyond the edge included, is 255.
ErodeExtended(img, element, Border(_, _)) ==
    [h |-> img.h, w |-> img.w, c |-> img.c,
     px |-> [i \in 1..(img.h * img.w * img.c) |->
        LET y == ((i - 1) \div img.c) \div img.w
            x == ((i - 1) \div img.c) % img.w
            k == (i - 1) % img.c
        IN  IF \A o \in element :
                   Extended(img, Border, y + o[1], x + o[2], k) = 255
            THEN 255 ELSE 0]]

\* C13 as stated: blur, sharpen and both erosions give what the kernel or
\* element gives on the image extended by repeating its edge rows and columns.
C13_BorderReplicated ==
    original_image # None =>
        /\ status_var.msg = "blur" =>
              processed_image = BlurExtended(original_image, Nearest)
        /\ status_var.msg = "sharpen" =>
              processed_image = SharpenExtended(original_image, Nearest)
        /\ status_var.msg = "erosion_square" =>
              processed_image =
                  ErodeExtended(ErosionInput(original_image), MORPH_RECT, Nearest)
        /\ status_var.msg = "erosion_cross" =>
              processed_image =
                  ErodeExtended(ErosionInput(original_image), MORPH_CROSS, Nearest)

\* C13 amended: blur and sharpen give what the kernel gives on the image
\* extended by mirroring it about its edge pixels (the edge pixel not
\* repeated); the erosions give what the element gives on the image extended
\* by repeating its edge rows and columns.
C13_ReflectedAndReplicated ==
    original_image # None =>
        /\ status_var.msg = "blur" =>
              processed_image = BlurExtended(original_image, Reflect101)
        /\ status_var.msg = "sharpen" =>
              processed_image = SharpenExtended(original_image, Reflect101)
        /\ status_var.msg = "erosion_square" =>
              processed_image =
                  ErodeExtended(ErosionInput(original_image), MORPH_RECT, Nearest)
        /\ status_var.msg = "erosion_cross" =>
              processed_image =
                  ErodeExtended(ErosionInput(original_image), MORPH_CROSS, Nearest)

\* C13's case: a blur whose border pixels come out differently under
\* replication.
C13_Witness ==
    /\ original_image # None
    /\ status_var.msg = "blur"
    /\ original_image.w = 2 /\ original_image.h = 2
    /\ processed_image # BlurExtended(original_image, Nearest)

\* C14: original and processed are both absent or both present, and when both
\* are present processed has original's width and height and 1 or 3 channels:
\* 1 after grayscale, binary or an erosion, original's count after logical NOT,
\* divide, blur, sharpen, reset or load.  (A failed load leaves original absent
\* and processed present.)
C14_BothOrNeither ==
    /\ (original_image = None) <=> (processed_image = None)
    /\ (original_image # None /\ processed_image # None) =>
          /\ processed_image.h = original_image.h
          /\ processed_image.w = original_image.w
          /\ processed_image.c \in {1, 3}
          /\ status_var.msg \in {"grayscale", "binary", "erosion_square",
                                 "erosion_cross"} => processed_image.c = 1
          /\ status_var.msg \in {"not", "division", "blur", "sharpen", "reset",
                                 "Loaded"} => processed_image.c = original_image.c

====
